---------------------------- MODULE Spec2Model ----------------------------
(***************************************************************************)
(* A model of src/src/authorization.ts: the BCE-Auth-V1 request signer.    *)
(*                                                                         *)
(* A JavaScript string is a sequence of characters; a character is a       *)
(* one-character TLA+ string ("a", "%", " "), except the back quote and    *)
(* the two non-ASCII characters of the alphabet, which are written by      *)
(* their code points ("U+0060", "U+00E9", "U+4E2D").  An optional value    *)
(* (an optional field or parameter) is a sequence of length 0 (undefined)  *)
(* or 1.                                                                   *)
(***************************************************************************)
EXTENDS Integers, Sequences, FiniteSets, TLC

VARIABLES
    pc,                       \* "idle" | "called" | "returned"
    credentials,              \* Authorization.credentials: [ak, sk]
    DEFAULT_HEADERS_TO_SIGN,  \* the module-level array of line 40
    request,                  \* the caller's RequestInfo object
    options,                  \* the caller's Options object
    context,                  \* the SignatureContext of the running call
    token,                    \* the string authorize returned
    served,                   \* whether authorize has returned before
    input,                    \* argument of a helper function applied alone
    output                    \* what that helper function returned

vars == <<pc, credentials, DEFAULT_HEADERS_TO_SIGN, request, options,
          context, token, served, input, output>>

-----------------------------------------------------------------------------
(* Bounds of the model *)

MaxLen == 3
MaxParams == 2
MaxHeaders == 2

-----------------------------------------------------------------------------
(* Optional values *)

Undefined == <<>>
Some(x) == <<x>>
IsDefined(o) == Len(o) = 1
Get(o) == o[1]

-----------------------------------------------------------------------------
(* Characters and their UTF-16 code units *)

\* The printable ASCII characters, in code order from 32 to 126.
ASCII ==
    <<" ", "!", "\"", "#", "$", "%", "&", "'", "(", ")", "*", "+", ",", "-",
      ".", "/", "0", "1", "2", "3", "4", "5", "6", "7", "8", "9", ":", ";",
      "<", "=", ">", "?", "@", "A", "B", "C", "D", "E", "F", "G", "H", "I",
      "J", "K", "L", "M", "N", "O", "P", "Q", "R", "S", "T", "U", "V", "W",
      "X", "Y", "Z", "[", "\\", "]", "^", "_", "U+0060", "a", "b", "c", "d",
      "e", "f", "g", "h", "i", "j", "k", "l", "m", "n", "o", "p", "q", "r", "s",
      "t", "u", "v", "w", "x", "y", "z", "{", "|", "}", "~">>

Range(s) == {s[i] : i \in DOMAIN s}

Chars == Range(ASCII) \cup {"\t", "\n", "U+00E9", "U+4E2D"}

CodeOf ==
    [c \in Chars |->
        CASE c = "\t" -> 9
          [] c = "\n" -> 10
          [] c = "U+00E9" -> 233
          [] c = "U+4E2D" -> 20013
          [] OTHER -> 31 + (CHOOSE i \in DOMAIN ASCII : ASCII[i] = c)]

UPPER == {ASCII[i] : i \in 34..59}
LOWER == {ASCII[i] : i \in 66..91}
DIGIT == {ASCII[i] : i \in 17..26}

\* String.prototype.toLowerCase, on the alphabet: A-Z map to a-z.
LowerChar(c) == IF c \in UPPER THEN ASCII[CodeOf[c] - 31 + 32] ELSE c
toLowerCase(s) == [i \in DOMAIN s |-> LowerChar(s[i])]

\* String.prototype.trim: white space and line terminators leave both ends.
WhiteSpace == {" ", "\t", "\n"}

RECURSIVE trimStart(_)
trimStart(s) ==
    IF s # <<>> /\ Head(s) \in WhiteSpace THEN trimStart(Tail(s)) ELSE s

RECURSIVE trimEnd(_)
trimEnd(s) ==
    IF s # <<>> /\ s[Len(s)] \in WhiteSpace
    THEN trimEnd(SubSeq(s, 1, Len(s) - 1))
    ELSE s

trim(s) == trimEnd(trimStart(s))

\* String.prototype.startsWith
startsWith(s, prefix) ==
    Len(s) >= Len(prefix) /\ SubSeq(s, 1, Len(prefix)) = prefix

\* Array.prototype.includes
includes(list, x) == \E i \in DOMAIN list : list[i] = x

\* The order Array.prototype.sort() gives strings: by UTF-16 code units, a
\* proper prefix first.
RECURSIVE StrLess(_, _)
StrLess(a, b) ==
    IF b = <<>> THEN FALSE
    ELSE IF a = <<>> THEN TRUE
    ELSE IF Head(a) = Head(b) THEN StrLess(Tail(a), Tail(b))
    ELSE CodeOf[Head(a)] < CodeOf[Head(b)]

RECURSIVE Insert(_, _)
Insert(x, sorted) ==
    IF sorted = <<>> THEN <<x>>
    ELSE IF StrLess(x, Head(sorted)) THEN <<x>> \o sorted
    ELSE <<Head(sorted)>> \o Insert(x, Tail(sorted))

\* Array.prototype.sort() with the default comparison.
RECURSIVE sort(_)
sort(list) ==
    IF list = <<>> THEN <<>> ELSE Insert(Head(list), sort(Tail(list)))

\* For the faulty variant of Authorize below: a list of [key, value] pairs in the order sort() gives
\* it, each pair compared as the string "key,value".
RECURSIVE InsertPair(_, _)
InsertPair(x, sorted) ==
    IF sorted = <<>> THEN <<x>>
    ELSE IF StrLess(x[1] \o <<",">> \o x[2],
                    Head(sorted)[1] \o <<",">> \o Head(sorted)[2])
    THEN <<x>> \o sorted
    ELSE <<Head(sorted)>> \o InsertPair(x, Tail(sorted))

RECURSIVE SortPairs(_)
SortPairs(list) ==
    IF list = <<>> THEN <<>> ELSE InsertPair(Head(list), SortPairs(Tail(list)))

\* Array.prototype.join
RECURSIVE join(_, _)
join(list, sep) ==
    IF list = <<>> THEN <<>>
    ELSE IF Len(list) = 1 THEN list[1]
    ELSE list[1] \o sep \o join(Tail(list), sep)

-----------------------------------------------------------------------------
(* normalize *)

HEX == <<"0", "1", "2", "3", "4", "5", "6", "7", "8", "9",
         "A", "B", "C", "D", "E", "F">>

\* The UTF-8 bytes of a code point below 0x10000.
Utf8(code) ==
    IF code < 128 THEN <<code>>
    ELSE IF code < 2048
    THEN <<192 + (code \div 64), 128 + (code % 64)>>
    ELSE <<224 + (code \div 4096), 128 + ((code \div 64) % 64),
           128 + (code % 64)>>

PercentByte(b) == <<"%", HEX[(b \div 16) + 1], HEX[(b % 16) + 1]>>

RECURSIVE PercentBytes(_)
PercentBytes(bytes) ==
    IF bytes = <<>> THEN <<>>
    ELSE PercentByte(Head(bytes)) \o PercentBytes(Tail(bytes))

\* The characters encodeURIComponent copies: uriUnescaped of ECMA-262.
URI_UNESCAPED ==
    UPPER \cup LOWER \cup DIGIT \cup {"-", "_", ".", "!", "~", "*", "'", "(", ")"}

RECURSIVE encodeURIComponent(_)
encodeURIComponent(s) ==
    IF s = <<>> THEN <<>>
    ELSE (IF Head(s) \in URI_UNESCAPED
          THEN <<Head(s)>>
          ELSE PercentBytes(Utf8(CodeOf[Head(s)])))
         \o encodeURIComponent(Tail(s))

NORMALIZE_MAP ==
    [c \in {"!", "'", "(", ")", "*"} |->
        CASE c = "!" -> <<"%", "2", "1">>
          [] c = "'" -> <<"%", "2", "7">>
          [] c = "(" -> <<"%", "2", "8">>
          [] c = ")" -> <<"%", "2", "9">>
          [] c = "*" -> <<"%", "2", "A">>]

\* .replace(/[!'()*]/g, v => NORMALIZE_MAP[v])
RECURSIVE replaceReserved(_)
replaceReserved(s) ==
    IF s = <<>> THEN <<>>
    ELSE (IF Head(s) \in DOMAIN NORMALIZE_MAP
          THEN NORMALIZE_MAP[Head(s)]
          ELSE <<Head(s)>>)
         \o replaceReserved(Tail(s))

\* Faulty variant: the replacement of ! ' ( ) * is left out.
normalize_noReplace(value) == encodeURIComponent(value)

normalize(value) == replaceReserved(encodeURIComponent(value))

-----------------------------------------------------------------------------
(* canonicalizeSearchParams *)

AUTHORIZATION ==
    <<"a", "u", "t", "h", "o", "r", "i", "z", "a", "t", "i", "o", "n">>

\* Faulty variant: the key is compared as written, without lower-casing it.
canonicalize_caseSensitive(pair) ==
    IF pair[1] = AUTHORIZATION
    THEN <<>>
    ELSE <<pair[1] \o <<"=">> \o normalize(pair[2])>>

\* The callback handed to flatMap: no element for an authorization
\* parameter, else one, `${key}=${normalize(value)}` (the key as written).
canonicalize(pair) ==
    IF toLowerCase(pair[1]) = AUTHORIZATION
    THEN <<>>
    ELSE <<pair[1] \o <<"=">> \o normalize(pair[2])>>

\* Array.prototype.flatMap with that callback.
RECURSIVE flatMapCanonicalize(_)
flatMapCanonicalize(list) ==
    IF list = <<>> THEN <<>>
    ELSE canonicalize(Head(list)) \o flatMapCanonicalize(Tail(list))

\* Faulty variant: the entries are joined in input order, without sorting them.
canonicalizeSearchParams_unsorted(params) ==
    IF ~IsDefined(params) THEN <<>>
    ELSE join(flatMapCanonicalize(Get(params)), <<"&">>)

canonicalizeSearchParams(params) ==
    IF ~IsDefined(params) THEN <<>>
    ELSE join(sort(flatMapCanonicalize(Get(params))), <<"&">>)

-----------------------------------------------------------------------------
(* canonicalizeHeaders *)

HOST == <<"h", "o", "s", "t">>
CONTENT_MD5 == <<"c", "o", "n", "t", "e", "n", "t", "-", "m", "d", "5">>
CONTENT_LENGTH ==
    <<"c", "o", "n", "t", "e", "n", "t", "-", "l", "e", "n", "g", "t", "h">>
CONTENT_TYPE ==
    <<"c", "o", "n", "t", "e", "n", "t", "-", "t", "y", "p", "e">>

\* The array literal DEFAULT_HEADERS_TO_SIGN is initialised with.
DefaultHeadersToSign == <<HOST, CONTENT_MD5, CONTENT_LENGTH, CONTENT_TYPE>>

X_BCE_ == <<"x", "-", "b", "c", "e", "-">>

\* Faulty variant: the prefix rule for x-bce- headers is left out.
isSigned_noPrefixRule(headerName, headerValue, headerNamesToSign) ==
    headerValue # <<>> /\ includes(headerNamesToSign, headerName)

\* The condition of line 58, on the lower-cased name and the trimmed value.
isSigned(headerName, headerValue, headerNamesToSign) ==
    /\ headerValue # <<>>
    /\ \/ includes(headerNamesToSign, headerName)
       \/ startsWith(headerName, X_BCE_)

\* The reduce over Object.entries(headers): the context after the entries
\* of `headers` have been visited in order, starting from `result`.
RECURSIVE reduceHeaders(_, _, _)
reduceHeaders(result, headers, headerNamesToSign) ==
    IF headers = <<>> THEN result
    ELSE LET headerName == toLowerCase(Head(headers)[1])
             headerValue == trim(Head(headers)[2])
             next ==
                 IF isSigned(headerName, headerValue, headerNamesToSign)
                 THEN [signedHeaderNames |->
                           Append(result.signedHeaderNames, headerName),
                       canonicalizedHeaders |->
                           Append(result.canonicalizedHeaders,
                                  normalize(headerName) \o <<":">>
                                      \o normalize(headerValue))]
                 ELSE result
         IN reduceHeaders(next, Tail(headers), headerNamesToSign)

\* Faulty variant: the block is joined in input order, without sorting it.
canonicalizeHeaders_unsortedBlock(headers, headerNamesToSign) ==
    LET r == reduceHeaders([signedHeaderNames |-> <<>>,
                            canonicalizedHeaders |-> <<>>],
                           headers, headerNamesToSign)
    IN [signedHeaderNames |-> r.signedHeaderNames,
        canonicalizedHeaders |-> join(r.canonicalizedHeaders, <<"\n">>)]

\* Faulty variant: the signed names are returned sorted, like the block.
canonicalizeHeaders_sortedNames(headers, headerNamesToSign) ==
    LET r == reduceHeaders([signedHeaderNames |-> <<>>,
                            canonicalizedHeaders |-> <<>>],
                           headers, headerNamesToSign)
    IN [signedHeaderNames |-> sort(r.signedHeaderNames),
        canonicalizedHeaders |-> join(sort(r.canonicalizedHeaders), <<"\n">>)]

canonicalizeHeaders(headers, headerNamesToSign) ==
    LET r == reduceHeaders([signedHeaderNames |-> <<>>,
                            canonicalizedHeaders |-> <<>>],
                           headers, headerNamesToSign)
    IN [signedHeaderNames |-> r.signedHeaderNames,
        canonicalizedHeaders |-> join(sort(r.canonicalizedHeaders), <<"\n">>)]

-----------------------------------------------------------------------------
(* hash, createContext, authorize *)

\* HMAC-SHA256 in hex, as a free function of its key and its data: two
\* digests are equal exactly when their keys and their data are.
hash(key, data) == <<"hmac-sha256(">> \o key \o <<")(">> \o data \o <<")">>

\* A number in a template literal: its decimal digits, "-" before a
\* negative one.
RECURSIVE Digits(_)
Digits(n) ==
    IF n < 10 THEN <<ASCII[17 + n]>>
    ELSE Digits(n \div 10) \o <<ASCII[17 + (n % 10)]>>

NumberToString(n) == IF n < 0 THEN <<"-">> \o Digits(0 - n) ELSE Digits(n)

DEFAULT_EXPIRE == 1800

\* Faulty variant: the default also replaces a negative number.
expireOrDefault_positiveOnly(expireInSeconds) ==
    IF IsDefined(expireInSeconds) /\ Get(expireInSeconds) > 0
    THEN Get(expireInSeconds)
    ELSE DEFAULT_EXPIRE

\* options.expireInSeconds || 1800: undefined and 0 are falsy.
expireOrDefault(expireInSeconds) ==
    IF IsDefined(expireInSeconds) /\ Get(expireInSeconds) # 0
    THEN Get(expireInSeconds)
    ELSE DEFAULT_EXPIRE

BCE_AUTH_V1 == <<"b", "c", "e", "-", "a", "u", "t", "h", "-", "v", "1">>

\* Faulty variant: the two HMAC steps take their key and their data swapped.
createContext_swappedHash(creds, defaults, req, opts) ==
    LET h == canonicalizeHeaders(
                 req.headers,
                 IF IsDefined(opts.headerNamesToSign)
                 THEN Get(opts.headerNamesToSign)
                 ELSE defaults)
        canonicalRequest ==
            join(<<req.method, req.url, canonicalizeSearchParams(req.params),
                   h.canonicalizedHeaders>>, <<"\n">>)
        authStringPrefix ==
            BCE_AUTH_V1 \o <<"/">> \o creds.ak \o <<"/">> \o opts.timestamp
                \o <<"/">> \o NumberToString(expireOrDefault(opts.expireInSeconds))
        signingKey == hash(authStringPrefix, creds.sk)
    IN [canonicalRequest |-> canonicalRequest,
        signedHeaderNames |-> h.signedHeaderNames,
        authStringPrefix |-> authStringPrefix,
        signingKey |-> signingKey,
        signature |-> hash(canonicalRequest, signingKey)]

\* `defaults` is DEFAULT_HEADERS_TO_SIGN as the call finds it: the default
\* value of canonicalizeHeaders' second parameter.
createContext(creds, defaults, req, opts) ==
    LET h == canonicalizeHeaders(
                 req.headers,
                 IF IsDefined(opts.headerNamesToSign)
                 THEN Get(opts.headerNamesToSign)
                 ELSE defaults)
        canonicalRequest ==
            join(<<req.method, req.url, canonicalizeSearchParams(req.params),
                   h.canonicalizedHeaders>>, <<"\n">>)
        authStringPrefix ==
            BCE_AUTH_V1 \o <<"/">> \o creds.ak \o <<"/">> \o opts.timestamp
                \o <<"/">> \o NumberToString(expireOrDefault(opts.expireInSeconds))
        signingKey == hash(creds.sk, authStringPrefix)
    IN [canonicalRequest |-> canonicalRequest,
        signedHeaderNames |-> h.signedHeaderNames,
        authStringPrefix |-> authStringPrefix,
        signingKey |-> signingKey,
        signature |-> hash(signingKey, canonicalRequest)]

\* Faulty variant: the signed names are joined by "," instead of ";".
tokenOf_commaNames(ctx) ==
    ctx.authStringPrefix \o <<"/">> \o join(ctx.signedHeaderNames, <<",">>)
        \o <<"/">> \o ctx.signature

\* The template literal authorize returns.
tokenOf(ctx) ==
    ctx.authStringPrefix \o <<"/">> \o join(ctx.signedHeaderNames, <<";">>)
        \o <<"/">> \o ctx.signature

authorize(creds, defaults, req, opts) ==
    tokenOf(createContext(creds, defaults, req, opts))

-----------------------------------------------------------------------------
(* The values calls are made with *)

SeqsUpTo(S, n) == UNION {[1..k -> S] : k \in 0..n}

\* Ordered mappings: no two entries have the same name.
IsMapping(entries) ==
    \A i, j \in DOMAIN entries : entries[i][1] = entries[j][1] => i = j

NoCredentials == [ak |-> <<>>, sk |-> <<>>]
NoRequest ==
    [method |-> <<>>, url |-> <<>>, params |-> Undefined, headers |-> <<>>]
NoOptions ==
    [timestamp |-> <<>>, headerNamesToSign |-> Undefined,
     expireInSeconds |-> Undefined]
NoContext ==
    [canonicalRequest |-> <<>>, signedHeaderNames |-> <<>>,
     authStringPrefix |-> <<>>, signingKey |-> <<>>, signature |-> <<>>]

ACCEPT == <<"a", "c", "c", "e", "p", "t">>

AccessKeys == {<<"A", "K">>}
SecretKeys == {<<"S", "K">>, <<"S", "2">>}
Methods == {<<"G", "E", "T">>}
Urls == {<<"/", "v", "1", "/", "o">>}
Timestamps ==
    {<<"2", "0", "1", "5", "-", "0", "4", "-", "2", "7", "T",
       "0", "8", ":", "2", "3", ":", "4", "9", "Z">>}
Expires == {Undefined, Some(0), Some(0 - 1), Some(60)}
SignLists == {Undefined, Some(<<ACCEPT>>)}

RequestHeaderEntries ==
    {<< <<"H", "o", "s", "t">>, <<"b", "j", ".", "c", "o", "m">> >>,
     << <<"X", "-", "B", "c", "e", "-", "D", "a", "t", "e">>, <<"d">> >>,
     << <<"A", "c", "c", "e", "p", "t">>, <<"*">> >>}

RequestParamEntries ==
    {<< <<"A", "u", "t", "h", "o", "r", "i", "z", "a", "t", "i", "o", "n">>,
        <<"t">> >>,
     << <<"b">>, <<"1">> >>,
     << <<"a">>, <<"x", " ", "y">> >>}

Requests ==
    [method : Methods,
     url : Urls,
     params : {Undefined}
                  \cup {Some(l) : l \in SeqsUpTo(RequestParamEntries, MaxParams)},
     headers : {h \in SeqsUpTo(RequestHeaderEntries, MaxHeaders) : IsMapping(h)}]

OptionsSet ==
    [timestamp : Timestamps,
     headerNamesToSign : SignLists,
     expireInSeconds : Expires]

-----------------------------------------------------------------------------
(* The Signer: new Authorization(credentials), then calls of authorize *)

Init ==
    /\ pc = "idle"
    /\ credentials \in [ak : AccessKeys, sk : SecretKeys]
    /\ DEFAULT_HEADERS_TO_SIGN = DefaultHeadersToSign
    /\ request = NoRequest
    /\ options = NoOptions
    /\ context = NoContext
    /\ token = <<>>
    /\ served = FALSE
    /\ input = <<>>
    /\ output = <<>>

\* The caller builds a request and options and calls authorize with them.
Call ==
    /\ pc = "idle"
    /\ \E req \in Requests, opts \in OptionsSet :
          /\ request' = req
          /\ options' = opts
    /\ pc' = "called"
    /\ UNCHANGED <<credentials, DEFAULT_HEADERS_TO_SIGN, context, token,
                   served, input, output>>

\* Faulty variant: the parameter list is sorted in place.
Authorize_sortsParams ==
    /\ pc = "called"
    /\ context' = createContext(credentials, DEFAULT_HEADERS_TO_SIGN,
                                request, options)
    /\ token' = tokenOf(context')
    /\ pc' = "returned"
    /\ request' =
           [request EXCEPT !.params =
               IF IsDefined(@)
               THEN Some(SortPairs(Get(@)))
               ELSE @]
    /\ UNCHANGED <<credentials, DEFAULT_HEADERS_TO_SIGN, options, served,
                   input, output>>

\* authorize runs from its first line to its return: it is synchronous.
\* It assigns nothing but its own locals; sort() and push() act on arrays
\* the call itself created.
Authorize ==
    /\ pc = "called"
    /\ context' = createContext(credentials, DEFAULT_HEADERS_TO_SIGN,
                                request, options)
    /\ token' = tokenOf(context')
    /\ pc' = "returned"
    /\ UNCHANGED <<credentials, DEFAULT_HEADERS_TO_SIGN, request, options,
                   served, input, output>>

\* The caller takes the token; the call's context is gone.
Return ==
    /\ pc = "returned"
    /\ pc' = "idle"
    /\ request' = NoRequest
    /\ options' = NoOptions
    /\ context' = NoContext
    /\ token' = <<>>
    /\ served' = TRUE
    /\ UNCHANGED <<credentials, DEFAULT_HEADERS_TO_SIGN, input, output>>

Next == Call \/ Authorize \/ Return

Spec == Init /\ [][Next]_vars

-----------------------------------------------------------------------------
(* The helper functions applied alone *)

InitHelper(inputs) ==
    /\ pc = "called"
    /\ credentials = NoCredentials
    /\ DEFAULT_HEADERS_TO_SIGN = DefaultHeadersToSign
    /\ request = NoRequest
    /\ options = NoOptions
    /\ context = NoContext
    /\ token = <<>>
    /\ served = FALSE
    /\ input \in inputs
    /\ output = <<>>

HelperFrame ==
    UNCHANGED <<credentials, DEFAULT_HEADERS_TO_SIGN, request, options,
                context, token, served, input>>

\* normalize: every character alone, and the strings of up to MaxLen
\* characters over a few characters of each kind.
NormalizeAlphabet == {"a", "Z", "7", "~", " ", "!", "*", "%", "/", "U+00E9"}

NormalizeInputs ==
    SeqsUpTo(NormalizeAlphabet, MaxLen) \cup {<<c>> : c \in Chars}

InitNormalize == InitHelper(NormalizeInputs)

Normalize ==
    /\ pc = "called"
    /\ output' = normalize(input)
    /\ pc' = "returned"
    /\ HelperFrame

SpecNormalize == InitNormalize /\ [][Normalize]_vars

\* canonicalizeSearchParams
ParamKeys ==
    {AUTHORIZATION,
     <<"A", "u", "t", "h", "o", "r", "i", "z", "a", "t", "i", "o", "n">>,
     <<"A", "U", "T", "H", "O", "R", "I", "Z", "A", "T", "I", "O", "N">>,
     <<"a">>, <<"b">>, <<"a", " ", "b">>}

ParamValues == {<<>>, <<"1">>, <<"x", "*", "y">>}

ParamInputs ==
    {Undefined}
        \cup {Some(l) : l \in SeqsUpTo(ParamKeys \X ParamValues, MaxParams)}

InitParams == InitHelper(ParamInputs)

CanonicalizeSearchParams ==
    /\ pc = "called"
    /\ output' = canonicalizeSearchParams(input)
    /\ pc' = "returned"
    /\ HelperFrame

SpecParams == InitParams /\ [][CanonicalizeSearchParams]_vars

\* canonicalizeHeaders
HeaderNames ==
    {<<"H", "o", "s", "t">>,
     <<"h", "o", "s", "t">>,
     <<"X", "-", "B", "c", "e", "-", "D", "a", "t", "e">>,
     <<"X", "-", "B", "c", "e">>,
     <<"C", "o", "n", "t", "e", "n", "t", "-", "T", "y", "p", "e">>,
     <<"A", "c", "c", "e", "p", "t">>}

HeaderValues == {<<>>, <<" ", "\t">>, <<"v">>, <<" ", "a", " ", "b", " ">>}

HeaderSignLists ==
    {Undefined, Some(<<>>), Some(<<ACCEPT>>),
     Some(<< <<"A", "c", "c", "e", "p", "t">> >>)}

HeaderInputs ==
    [headers : {h \in SeqsUpTo(HeaderNames \X HeaderValues, MaxHeaders) :
                    IsMapping(h)},
     headerNamesToSign : HeaderSignLists]

InitHeaders == InitHelper(HeaderInputs)

CanonicalizeHeaders ==
    /\ pc = "called"
    /\ output' = canonicalizeHeaders(
                     input.headers,
                     IF IsDefined(input.headerNamesToSign)
                     THEN Get(input.headerNamesToSign)
                     ELSE DEFAULT_HEADERS_TO_SIGN)
    /\ pc' = "returned"
    /\ HelperFrame

SpecHeaders == InitHeaders /\ [][CanonicalizeHeaders]_vars

-----------------------------------------------------------------------------
(* What the claims are stated with *)

Unreserved == UPPER \cup LOWER \cup DIGIT \cup {"-", "_", ".", "~"}

HexValue(c) == (CHOOSE i \in DOMAIN HEX : HEX[i] = c) - 1

\* A string made of unreserved characters and %XX escapes in upper-case hex.
RECURSIVE IsPercentEncoded(_)
IsPercentEncoded(s) ==
    IF s = <<>> THEN TRUE
    ELSE IF Head(s) = "%"
    THEN /\ Len(s) >= 3
         /\ s[2] \in Range(HEX)
         /\ s[3] \in Range(HEX)
         /\ IsPercentEncoded(SubSeq(s, 4, Len(s)))
    ELSE Head(s) \in Unreserved /\ IsPercentEncoded(Tail(s))

\* The bytes a percent-encoded string stands for.
RECURSIVE EncodedBytes(_)
EncodedBytes(s) ==
    IF s = <<>> THEN <<>>
    ELSE IF Head(s) = "%"
    THEN <<16 * HexValue(s[2]) + HexValue(s[3])>>
             \o EncodedBytes(SubSeq(s, 4, Len(s)))
    ELSE <<CodeOf[Head(s)]>> \o EncodedBytes(Tail(s))

CharOf(code) == CHOOSE c \in Chars : CodeOf[c] = code

\* The characters a sequence of UTF-8 bytes stands for.
RECURSIVE Utf8Decode(_)
Utf8Decode(b) ==
    IF b = <<>> THEN <<>>
    ELSE IF b[1] < 128 THEN <<CharOf(b[1])>> \o Utf8Decode(Tail(b))
    ELSE IF b[1] < 224
    THEN <<CharOf((b[1] - 192) * 64 + (b[2] - 128))>>
             \o Utf8Decode(SubSeq(b, 3, Len(b)))
    ELSE <<CharOf((b[1] - 224) * 4096 + (b[2] - 128) * 64 + (b[3] - 128))>>
             \o Utf8Decode(SubSeq(b, 4, Len(b)))

PercentDecode(s) == Utf8Decode(EncodedBytes(s))

\* The number of characters of s outside %XX escapes.
RECURSIVE LiteralCount(_)
LiteralCount(s) ==
    IF s = <<>> THEN 0
    ELSE IF Head(s) = "%" THEN LiteralCount(SubSeq(s, 4, Len(s)))
    ELSE 1 + LiteralCount(Tail(s))

IsSorted(list) ==
    \A i, j \in DOMAIN list : i < j => ~StrLess(list[j], list[i])

\* The sorted arrangements of a list (they are all the same sequence).
SortedArrangements(list) ==
    {a \in {[i \in DOMAIN list |-> list[p[i]]] :
                p \in Permutations(DOMAIN list)} : IsSorted(a)}

Arrangements(list) ==
    {[i \in DOMAIN list |-> list[p[i]]] : p \in Permutations(DOMAIN list)}

IsAuthorizationKey(key) ==
    /\ Len(key) = Len(AUTHORIZATION)
    /\ \A i \in DOMAIN key :
          \/ key[i] = AUTHORIZATION[i]
          \/ key[i] \in UPPER /\ CodeOf[key[i]] + 32 = CodeOf[AUTHORIZATION[i]]

IsSignedParam(pair) == ~IsAuthorizationKey(pair[1])

-----------------------------------------------------------------------------
(* C8 *)

SpecialEscapes ==
    [c \in {" ", "!", "'", "(", ")", "*"} |->
        CASE c = " " -> <<"%", "2", "0">>
          [] c = "!" -> <<"%", "2", "1">>
          [] c = "'" -> <<"%", "2", "7">>
          [] c = "(" -> <<"%", "2", "8">>
          [] c = ")" -> <<"%", "2", "9">>
          [] c = "*" -> <<"%", "2", "A">>]

-----------------------------------------------------------------------------
(* C2 *)

EntryKeyVerbatim(pair) == pair[1] \o <<"=">> \o normalize(pair[2])
EntryKeyEncoded(pair) == normalize(pair[1]) \o <<"=">> \o normalize(pair[2])

SignedPairs(params) == SelectSeq(Get(params), IsSignedParam)

\* The sorted arrangement of the entries, joined by sep.
JoinedSorted(entries, sep) ==
    {join(a, sep) : a \in SortedArrangements(entries)}

\* C2 as stated: the canonical query string is the '&'-join of the sorted
\* entries normalize(key) = normalize(value) of the pairs whose key is not
\* authorization.
C2_Original ==
    pc = "returned" =>
        IF ~IsDefined(input) THEN output = <<>>
        ELSE output \in JoinedSorted(
                 [i \in DOMAIN SignedPairs(input) |->
                     EntryKeyEncoded(SignedPairs(input)[i])], <<"&">>)

\* C2 as amended: the canonical query string is the '&'-join of the sorted
\* entries key = normalize(value), the key as written and only the value
\* percent-encoded, of the pairs whose lower-cased key is not authorization;
\* duplicate keys each give an entry, and an absent or empty list gives the
\* empty string.
C2_KeyVerbatim ==
    pc = "returned" =>
        /\ IF ~IsDefined(input) THEN output = <<>>
           ELSE output \in JoinedSorted(
                    [i \in DOMAIN SignedPairs(input) |->
                        EntryKeyVerbatim(SignedPairs(input)[i])], <<"&">>)
        /\ input = Some(<<>>) => output = <<>>

C2_Witness ==
    /\ pc = "returned"
    /\ input = Some(<< << <<"b">>, <<"x", "*", "y">> >>,
                       << <<"a", " ", "b">>, <<"1">> >> >>)
    /\ output = <<"a", " ", "b", "=", "1", "&", "b", "=", "x", "%", "2", "A",
                  "y">>

-----------------------------------------------------------------------------
(* C3 and C6 *)

LowerName(name) ==
    [i \in DOMAIN name |->
        IF name[i] \in UPPER THEN CharOf(CodeOf[name[i]] + 32) ELSE name[i]]

NonBlank(value) == \E i \in DOMAIN value : value[i] \notin WhiteSpace

\* The value without the white space at its two ends.
Trimmed(value) ==
    IF ~NonBlank(value) THEN <<>>
    ELSE LET solid == {i \in DOMAIN value : value[i] \notin WhiteSpace}
             first == CHOOSE i \in solid : \A j \in solid : i <= j
             last == CHOOSE i \in solid : \A j \in solid : j <= i
         IN SubSeq(value, first, last)

HasPrefix(name, prefix) ==
    /\ Len(prefix) <= Len(name)
    /\ \A i \in DOMAIN prefix : name[i] = prefix[i]

\* The sign-list a call of canonicalizeHeaders works with.
SignListOf(in) ==
    IF IsDefined(in.headerNamesToSign)
    THEN Get(in.headerNamesToSign)
    ELSE <<HOST, CONTENT_MD5, CONTENT_LENGTH, CONTENT_TYPE>>

\* The inclusion rule of the claims, for one [name, value] entry.
MustSign(entry, signList) ==
    /\ NonBlank(entry[2])
    /\ \/ LowerName(entry[1]) \in Range(signList)
       \/ HasPrefix(LowerName(entry[1]), <<"x", "-", "b", "c", "e", "-">>)

X_BCE_DATE == <<"X", "-", "B", "c", "e", "-", "D", "a", "t", "e">>
CONTENT_TYPE_HEADER ==
    <<"C", "o", "n", "t", "e", "n", "t", "-", "T", "y", "p", "e">>

\* C3: canonicalizeHeaders includes a header if and only if its trimmed
\* value is non-empty and its lower-cased name is in headerNamesToSign (the
\* default list when none is given) or starts with x-bce-: the lower-cased
\* names it returns are those of the headers the rule selects, one for each
\* of them; X-Bce-Date with a non-empty value is included under the default
\* list, and Content-Type with an empty or blank value is left out.
C3_Inclusion ==
    pc = "returned" =>
        LET hs == input.headers
            list == SignListOf(input)
            selected == {i \in DOMAIN hs : MustSign(hs[i], list)}
        IN /\ Len(output.signedHeaderNames) = Cardinality(selected)
           /\ \A i \in DOMAIN hs :
                 LowerName(hs[i][1]) \in Range(output.signedHeaderNames)
                     <=> \E j \in selected :
                            LowerName(hs[j][1]) = LowerName(hs[i][1])
           /\ \A i \in DOMAIN hs :
                 /\ hs[i][1] = X_BCE_DATE
                 /\ NonBlank(hs[i][2])
                 /\ ~IsDefined(input.headerNamesToSign)
                 => LowerName(X_BCE_DATE) \in Range(output.signedHeaderNames)
           /\ \A i \in DOMAIN hs :
                 /\ hs[i][1] = CONTENT_TYPE_HEADER
                 /\ ~NonBlank(hs[i][2])
                 => LowerName(CONTENT_TYPE_HEADER)
                        \notin Range(output.signedHeaderNames)

C3_Witness ==
    /\ pc = "returned"
    /\ ~IsDefined(input.headerNamesToSign)
    /\ input.headers = << <<CONTENT_TYPE_HEADER, <<" ", "\t">> >>,
                          <<X_BCE_DATE, <<"v">> >> >>
    /\ output.signedHeaderNames
           = << <<"x", "-", "b", "c", "e", "-", "d", "a", "t", "e">> >>

HeaderEntry(entry) ==
    normalize(LowerName(entry[1])) \o <<":">> \o normalize(Trimmed(entry[2]))

\* What the claims say canonicalizeHeaders returns for a mapping.
SignedNamesOf(hs, list) ==
    LET sel == SelectSeq(hs, LAMBDA e : MustSign(e, list))
    IN [i \in DOMAIN sel |-> LowerName(sel[i][1])]

BlocksOf(hs, list) ==
    LET sel == SelectSeq(hs, LAMBDA e : MustSign(e, list))
    IN JoinedSorted([i \in DOMAIN sel |-> HeaderEntry(sel[i])], <<"\n">>)

\* C6: signedHeaderNames is the lower-cased names of the included headers
\* in the mapping's own order, one for each; the canonical block is the
\* sorted list of normalize(lower-cased name):normalize(trimmed value)
\* joined by newlines; the same entries in another order give the same
\* block, and names that follow that other order.
C6_NamesInOrder ==
    pc = "returned" =>
        LET list == SignListOf(input)
        IN /\ output.signedHeaderNames = SignedNamesOf(input.headers, list)
           /\ output.canonicalizedHeaders \in BlocksOf(input.headers, list)
           /\ \A other \in Arrangements(input.headers) :
                 LET r == canonicalizeHeaders(other, list)
                 IN /\ r.canonicalizedHeaders = output.canonicalizedHeaders
                    /\ r.signedHeaderNames = SignedNamesOf(other, list)
                    /\ r.signedHeaderNames
                           \in Arrangements(output.signedHeaderNames)

C6_Witness ==
    /\ pc = "returned"
    /\ ~IsDefined(input.headerNamesToSign)
    /\ input.headers = << <<X_BCE_DATE, <<" ", "a", " ", "b", " ">> >>,
                          << <<"H", "o", "s", "t">>, <<"v">> >> >>
    /\ output.signedHeaderNames
           = << <<"x", "-", "b", "c", "e", "-", "d", "a", "t", "e">>, HOST >>
    /\ output.canonicalizedHeaders
           = <<"h", "o", "s", "t", ":", "v", "\n",
               "x", "-", "b", "c", "e", "-", "d", "a", "t", "e", ":",
               "a", "%", "2", "0", "b">>

-----------------------------------------------------------------------------
(* C1 *)

SLASH == <<"/">>

PrefixWith(expireText) ==
    <<"b", "c", "e", "-", "a", "u", "t", "h", "-", "v", "1">> \o SLASH
        \o credentials.ak \o SLASH \o options.timestamp \o SLASH \o expireText

TokenWithExpire(expire) ==
    authorize(credentials, DEFAULT_HEADERS_TO_SIGN, request,
              [options EXCEPT !.expireInSeconds = Some(expire)])

\* C1 as stated: with expireInSeconds omitted, 0 or negative, authStringPrefix
\* is bce-auth-v1/{accessKey}/{timestamp}/1800 and the token is that of a
\* call with expireInSeconds = 1800.
C1_Original ==
    pc = "returned"
        /\ (~IsDefined(options.expireInSeconds)
               \/ Get(options.expireInSeconds) <= 0)
    => /\ context.authStringPrefix = PrefixWith(<<"1", "8", "0", "0">>)
       /\ token = TokenWithExpire(1800)

\* C1 as amended: with expireInSeconds omitted or 0, authStringPrefix is
\* bce-auth-v1/{accessKey}/{timestamp}/1800 and the token is that of a call
\* with expireInSeconds = 1800; a negative expireInSeconds is not replaced:
\* authStringPrefix ends with it as written (-1 gives .../-1).
C1_OmittedOrZero ==
    pc = "returned" =>
        /\ (~IsDefined(options.expireInSeconds)
               \/ Get(options.expireInSeconds) = 0)
           => /\ context.authStringPrefix = PrefixWith(<<"1", "8", "0", "0">>)
              /\ token = TokenWithExpire(1800)
        /\ options.expireInSeconds = Some(0 - 1)
           => context.authStringPrefix = PrefixWith(<<"-", "1">>)

C1_Witness ==
    /\ pc = "returned"
    /\ options.expireInSeconds = Some(0)
    /\ context.authStringPrefix = PrefixWith(<<"1", "8", "0", "0">>)

-----------------------------------------------------------------------------
(* C4 *)

SignedParamEntries(params) ==
    IF IsDefined(params)
    THEN [i \in DOMAIN SignedPairs(params) |->
             EntryKeyVerbatim(SignedPairs(params)[i])]
    ELSE <<>>

ParamArrangements(params) ==
    IF IsDefined(params)
    THEN {Some(a) : a \in Arrangements(Get(params))}
    ELSE {Undefined}

\* C4: for the same credential, method, url and options, a request with the
\* same header entries in another order and a permutation of the parameter
\* list gives the same canonical request and the same signature.
C4_OrderInvariant ==
    pc = "returned" =>
        \A hs \in Arrangements(request.headers),
           ps \in ParamArrangements(request.params) :
            LET other == createContext(
                             credentials, DEFAULT_HEADERS_TO_SIGN,
                             [request EXCEPT !.headers = hs, !.params = ps],
                             options)
            IN /\ other.canonicalRequest = context.canonicalRequest
               /\ other.signature = context.signature

C4_Witness ==
    /\ pc = "returned"
    /\ Len(context.signedHeaderNames) = 2
    /\ ~IsSorted(context.signedHeaderNames)
    /\ Len(SignedParamEntries(request.params)) = 2
    /\ ~IsSorted(SignedParamEntries(request.params))

-----------------------------------------------------------------------------
(* C5 *)

\* The expire value in force, in decimal.
ExpireText ==
    CASE ~IsDefined(options.expireInSeconds) -> <<"1", "8", "0", "0">>
      [] options.expireInSeconds = Some(0) -> <<"1", "8", "0", "0">>
      [] options.expireInSeconds = Some(60) -> <<"6", "0">>
      [] options.expireInSeconds = Some(0 - 1) -> <<"-", "1">>

\* The names joined by ";".
RECURSIVE NamesSegment(_)
NamesSegment(names) ==
    IF names = <<>> THEN <<>>
    ELSE IF Len(names) = 1 THEN names[1]
    ELSE NamesSegment(SubSeq(names, 1, Len(names) - 1))
             \o <<";">> \o names[Len(names)]

\* C5: the token is bce-auth-v1/ + accessKey + / + timestamp + / + expire
\* + / + the signed header names of the request joined by ; + / + signature
\* (expire being the expire value in force); with no signed header the
\* names segment is empty between its two slashes.
C5_TokenShape ==
    pc = "returned" =>
        LET names ==
                canonicalizeHeaders(
                    request.headers,
                    IF IsDefined(options.headerNamesToSign)
                    THEN Get(options.headerNamesToSign)
                    ELSE DefaultHeadersToSign).signedHeaderNames
        IN /\ token = PrefixWith(ExpireText) \o SLASH \o NamesSegment(names)
                          \o SLASH \o context.signature
           /\ names = <<>>
              => token = context.authStringPrefix \o <<"/", "/">>
                             \o context.signature

C5_Witness ==
    /\ pc = "returned"
    /\ Len(context.signedHeaderNames) = 2
    /\ options.expireInSeconds = Some(60)

-----------------------------------------------------------------------------
(* C7 *)

AuthorizationPairs ==
    {<< <<"a", "u", "t", "h", "o", "r", "i", "z", "a", "t", "i", "o", "n">>,
        <<"s">> >>,
     << <<"A", "u", "t", "h", "o", "r", "i", "z", "a", "t", "i", "o", "n">>,
        <<"s">> >>,
     << <<"A", "U", "T", "H", "O", "R", "I", "Z", "A", "T", "I", "O", "N">>,
        <<"s">> >>}

WithoutAuthorization(params) ==
    IF IsDefined(params) THEN Some(SignedPairs(params)) ELSE params

\* The lists made from a list by putting one more pair somewhere in it.
Insertions(list, pair) ==
    {SubSeq(list, 1, k) \o <<pair>> \o SubSeq(list, k + 1, Len(list)) :
        k \in 0..Len(list)}

\* C7: a parameter whose key is authorization in any letter case gives no
\* entry of the canonical query string: the canonical request and the token
\* are those of the request without such parameters, and of the request
\* with one more of them.
C7_AuthorizationDropped ==
    pc = "returned" =>
        LET ContextOf(ps) ==
                createContext(credentials, DEFAULT_HEADERS_TO_SIGN,
                              [request EXCEPT !.params = ps], options)
            stripped == ContextOf(WithoutAuthorization(request.params))
        IN /\ stripped.canonicalRequest = context.canonicalRequest
           /\ tokenOf(stripped) = token
           /\ context.canonicalRequest
                  \in {request.method \o <<"\n">> \o request.url \o <<"\n">>
                           \o q \o <<"\n">>
                           \o canonicalizeHeaders(
                                  request.headers,
                                  IF IsDefined(options.headerNamesToSign)
                                  THEN Get(options.headerNamesToSign)
                                  ELSE DefaultHeadersToSign
                              ).canonicalizedHeaders :
                       q \in JoinedSorted(SignedParamEntries(request.params),
                                          <<"&">>)}
           /\ IsDefined(request.params) =>
                 \A pair \in AuthorizationPairs :
                    \A more \in Insertions(Get(request.params), pair) :
                        tokenOf(ContextOf(Some(more))) = token

C7_Witness ==
    /\ pc = "returned"
    /\ IsDefined(request.params)
    /\ Len(Get(request.params)) = 2
    /\ Len(SignedPairs(request.params)) = 1
    /\ Get(request.params)[1][1]
           = <<"A", "u", "t", "h", "o", "r", "i", "z", "a", "t", "i", "o", "n">>

-----------------------------------------------------------------------------
(* C9 *)

\* C9: authorize has no side effects: no step changes the Signer's
\* credential or the default sign-list, the call leaves its request and its
\* options as they were handed to it, and the token of every call is the
\* one a new Signer with the same credential returns for the same request
\* and options.
C9_NoSideEffects ==
    /\ [][/\ credentials' = credentials
          /\ DEFAULT_HEADERS_TO_SIGN' = DEFAULT_HEADERS_TO_SIGN
          /\ pc = "called" => request' = request /\ options' = options]_vars
    /\ [](/\ DEFAULT_HEADERS_TO_SIGN
                = <<HOST, CONTENT_MD5, CONTENT_LENGTH, CONTENT_TYPE>>
          /\ pc = "returned"
                => token = authorize(credentials, DefaultHeadersToSign,
                                     request, options))

C9_Witness ==
    /\ pc = "returned"
    /\ served
    /\ ~IsDefined(options.headerNamesToSign)
    /\ Len(context.signedHeaderNames) = 2
    /\ Len(SignedParamEntries(request.params)) = 2
    /\ ~IsSorted(SignedParamEntries(request.params))

-----------------------------------------------------------------------------
(* C10 *)

NEWLINE == <<"\n">>

\* C10: the signature is hexHMAC(hexHMAC(secretKey, authStringPrefix),
\* canonicalRequest), canonicalRequest being method, url, canonical query
\* string and canonical header block joined by single newlines in that
\* order, an empty part keeping its place; the token ends with that
\* signature, and a Signer with another secret key computes the same
\* authStringPrefix, canonicalRequest and signed header names.
C10_Signature ==
    pc = "returned" =>
        LET list == IF IsDefined(options.headerNamesToSign)
                    THEN Get(options.headerNamesToSign)
                    ELSE DefaultHeadersToSign
            h == canonicalizeHeaders(request.headers, list)
            q == canonicalizeSearchParams(request.params)
        IN /\ context.canonicalRequest
                  = request.method \o NEWLINE \o request.url \o NEWLINE
                        \o q \o NEWLINE \o h.canonicalizedHeaders
           /\ context.signingKey
                  = hash(credentials.sk, context.authStringPrefix)
           /\ context.signature
                  = hash(hash(credentials.sk, context.authStringPrefix),
                         context.canonicalRequest)
           /\ SubSeq(token, Len(token) - Len(context.signature) + 1,
                     Len(token)) = context.signature
           /\ \A sk \in SecretKeys :
                 LET other == createContext(
                                  [credentials EXCEPT !.sk = sk],
                                  DEFAULT_HEADERS_TO_SIGN, request, options)
                 IN /\ other.authStringPrefix = context.authStringPrefix
                    /\ other.canonicalRequest = context.canonicalRequest
                    /\ other.signedHeaderNames = context.signedHeaderNames

C10_Witness ==
    /\ pc = "returned"
    /\ ~IsDefined(request.params)
    /\ request.headers = <<>>
    /\ context.canonicalRequest
           = request.method \o NEWLINE \o request.url \o <<"\n", "\n">>

=============================================================================
